---------------------------- MODULE Spec2Model ----------------------------
(***************************************************************************)
(* The nesting_depth lint of toms-lints (nesting_depth/src/lib.rs).        *)
(*                                                                         *)
(* check_crate builds a NestingDepthVisitor and walks the crate.  The      *)
(* visitor keeps a stack of contexts, one open Depth lint                  *)
(* (current_nesting_lint), one open ConsecIfElse lint per context and the  *)
(* list of finished lints.  The walk is recursive; here it is unfolded     *)
(* into steps: `calls` is the visitor's call stack (which handler is       *)
(* active and where it resumes), and the crate is not fixed in advance:    *)
(* every step that looks at the next statement, expression or item picks   *)
(* its kind, so the behaviours cover the walk of every crate of at most    *)
(* MaxNodes composite nodes.  Each node gets the next span number.         *)
(*                                                                         *)
(* An Option<T> is a sequence of length at most one: <<>> is None and      *)
(* <<x>> is Some(x).                                                       *)
(***************************************************************************)
EXTENDS Naturals, Sequences, FiniteSets, TLC

\* ------------------------------------------------------------- bounds ---

\* Largest number of composite syntax nodes (nodes that have a span and
\* children) in the crate.
MaxNodes == 4

\* Largest number of those that get a context and are neither a function
\* nor a branch of an if chain: statics, modules, traits, impls, `let`
\* expressions, loops and blocks.
MaxOther == 2

\* Largest number of those that get no context: matches, calls, closures,
\* gen and try blocks and let-else statements.
MaxPlain == 1

\* Largest configured max_depth and max_consec_if_else.
MaxThreshold == 1

\* Largest number of applications of count_depth that are recorded.
MaxApplied == 2

\* Largest number of functions and if branches of a crate that is walked
\* under the default configuration.
MaxDefaultNodes == 5

\* Largest number of characters of the source text of an item that
\* eol_comments scans.
MaxSnippet == 4

\* Largest number of constructs with a span, of expressions of other kinds
\* and of bodies that nesting_too_deep checks, and the largest max_depth of
\* its configuration.
MaxDeepNodes == 4

MaxDeepLeaves == 2

MaxDeepFns == 2

MaxDeepLimit == 2

\* -------------------------------------------------- program constants ---

DEFAULT_MAX_DEPTH == 3

DEFAULT_MAX_CONSEC_IF_ELSE == 3

\* The default configuration with the max_consec_if_else of config.rs.
DefaultConfig_of_config_rs ==
    [max_depth |-> DEFAULT_MAX_DEPTH, max_consec_if_else |-> 10]

\* Config::default(), also what serde fills in for a configuration file
\* without keys.
DefaultConfig ==
    [max_depth |-> DEFAULT_MAX_DEPTH,
     max_consec_if_else |-> DEFAULT_MAX_CONSEC_IF_ELSE]

VARIABLES
    visitor,    \* the NestingDepthVisitor of this run of check_crate
    raised,     \* the visitor of a second run over the same crate, with
                \* max_depth one higher
    calls,      \* the call stack of the walk; its last element is the
                \* handler that runs next
    next_span,  \* the span the next composite node gets
    others,     \* the number of composite nodes so far that get a context
                \* and are neither a function nor a branch of an if chain
    plains,     \* the number of composite nodes so far that get no context
    trace,      \* the handlers run so far, kept while the crate is one of
                \* the shapes of Shapes
    opened,     \* every lint created so far, without its count
    owner,      \* index in contexts of the context whose push created the
                \* open Depth lint; 0 when none is open or it was popped
    last_pop,   \* the last pop_context: the span of the node whose handler
                \* ran it and the span of the context it removed
    chain_depth,\* for every if chain being walked, innermost last: depth()
                \* in the body of its first `if`
    counted,    \* the applications of ContextKind::count_depth so far
    deepest,    \* the greatest depth() since the open Depth lint was
                \* created; 0 when none is open
    eol,        \* eol_comments: the source text of the item, whether
                \* check_item has run, and the lints it emitted for each line
    too_deep    \* nesting_too_deep: the pass, the calls of
                \* check_expr_for_nesting in progress and the bodies checked

vars ==
    <<visitor, raised, calls, next_span, others, plains, trace, opened, owner, last_pop,
      chain_depth, counted, deepest, eol, too_deep>>

\* ------------------------------------------------------------ visitor ---

Last(s) == s[Len(s)]

Front(s) == SubSeq(s, 1, Len(s) - 1)

Depth(n) == [tag |-> "Depth", n |-> n]

ConsecIfElse(n) == [tag |-> "ConsecIfElse", n |-> n]

label(reason) ==
    IF reason.tag = "Depth" THEN "nesting depth"
    ELSE "consecutive if-else statements"

\* Reason::message that writes the range of levels for every depth.
message_always_range(reason, config) ==
    IF reason.tag = "Depth"
    THEN label(reason) \o ": " \o ToString(config.max_depth)
           \o " max allowed, "
           \o ToString(config.max_depth + 1) \o " to " \o ToString(reason.n)
           \o " levels"
           \o " found"
    ELSE label(reason) \o ": " \o ToString(config.max_consec_if_else)
           \o " max allowed, " \o ToString(reason.n) \o " found"

message(reason, config) ==
    IF reason.tag = "Depth"
    THEN label(reason) \o ": " \o ToString(config.max_depth)
           \o " max allowed, "
           \o (IF reason.n > config.max_depth + 1
               THEN ToString(config.max_depth + 1) \o " to "
                      \o ToString(reason.n) \o " levels"
               ELSE ToString(reason.n) \o " levels")
           \o " found"
    ELSE label(reason) \o ": " \o ToString(config.max_consec_if_else)
           \o " max allowed, " \o ToString(reason.n) \o " found"

NewLint(outer_span, span, kind, reason) ==
    [outer_span |-> outer_span, span |-> span, kind |-> kind, reason |-> reason]

NewContext(kind, span) ==
    [span |-> span, kind |-> kind,
     consec_if_else_span |-> <<>>,
     consec_if_else_count |-> 0,
     consec_if_else_lint |-> <<>>]

NewVisitor(config) ==
    [config |-> config,
     contexts |-> <<>>,
     lints |-> <<>>,
     current_nesting_lint |-> <<>>,
     inside_fn |-> FALSE]

depth(self) ==
    IF Len(self.contexts) = 0 THEN 0 ELSE Len(self.contexts) - 1

\* inc_if_else with the threshold test off by one: a count equal to
\* max_consec_if_else already counts as too many.
inc_if_else_at_threshold(self, span) ==
    IF self.contexts = <<>> THEN self
    ELSE
      LET n == Len(self.contexts)
          ctx == self.contexts[n]
          outer_span == IF ctx.consec_if_else_span = <<>>
                        THEN span ELSE ctx.consec_if_else_span[1]
          count == ctx.consec_if_else_count + 1
          lint == IF ctx.consec_if_else_lint = <<>>
                  THEN NewLint(<<outer_span>>, span, ctx.kind, ConsecIfElse(count))
                  ELSE ctx.consec_if_else_lint[1]
      IN [self EXCEPT !.contexts[n] =
            [ctx EXCEPT
               !.consec_if_else_span = <<outer_span>>,
               !.consec_if_else_count = count,
               !.consec_if_else_lint =
                   IF count >= self.config.max_consec_if_else
                   THEN <<[lint EXCEPT !.reason = ConsecIfElse(count)]>>
                   ELSE ctx.consec_if_else_lint]]

inc_if_else(self, span) ==
    IF self.contexts = <<>> THEN self
    ELSE
      LET n == Len(self.contexts)
          ctx == self.contexts[n]
          outer_span == IF ctx.consec_if_else_span = <<>>
                        THEN span ELSE ctx.consec_if_else_span[1]
          count == ctx.consec_if_else_count + 1
          lint == IF ctx.consec_if_else_lint = <<>>
                  THEN NewLint(<<outer_span>>, span, ctx.kind, ConsecIfElse(count))
                  ELSE ctx.consec_if_else_lint[1]
      IN [self EXCEPT !.contexts[n] =
            [ctx EXCEPT
               !.consec_if_else_span = <<outer_span>>,
               !.consec_if_else_count = count,
               !.consec_if_else_lint =
                   IF count > self.config.max_consec_if_else
                   THEN <<[lint EXCEPT !.reason = ConsecIfElse(count)]>>
                   ELSE ctx.consec_if_else_lint]]

reset_if_else(self) ==
    IF self.contexts = <<>> THEN self
    ELSE [self EXCEPT !.contexts[Len(self.contexts)] =
            [@ EXCEPT !.consec_if_else_count = 0,
                      !.consec_if_else_span = <<>>,
                      !.consec_if_else_lint = <<>>]]

\* push_context that inserts a new lint at every push above max_depth
\* instead of keeping the open one.
push_context_insert(self, kind, span) ==
    LET pushed == [self EXCEPT !.contexts = Append(@, NewContext(kind, span))]
        d == depth(pushed)
        outer_span == IF Len(pushed.contexts) >= 2
                      THEN <<pushed.contexts[2].span>> ELSE <<>>
    IN IF d <= self.config.max_depth THEN pushed
       ELSE [pushed EXCEPT !.current_nesting_lint =
                              <<NewLint(outer_span, span, kind, Depth(d))>>]

\* push_context that takes the outer span from the first entry of the stack.
push_context_outer_first(self, kind, span) ==
    LET pushed == [self EXCEPT !.contexts = Append(@, NewContext(kind, span))]
        d == depth(pushed)
        outer_span == <<pushed.contexts[1].span>>
        lint == IF pushed.current_nesting_lint = <<>>
                THEN NewLint(outer_span, span, kind, Depth(d))
                ELSE pushed.current_nesting_lint[1]
    IN IF d <= self.config.max_depth THEN pushed
       ELSE [pushed EXCEPT !.current_nesting_lint =
                              <<[lint EXCEPT !.reason = Depth(d)]>>]

\* push_context that leaves the count of an open lint as it is.
push_context_keep_reason(self, kind, span) ==
    LET pushed == [self EXCEPT !.contexts = Append(@, NewContext(kind, span))]
        d == depth(pushed)
        outer_span == IF Len(pushed.contexts) >= 2
                      THEN <<pushed.contexts[2].span>> ELSE <<>>
        lint == IF pushed.current_nesting_lint = <<>>
                THEN NewLint(outer_span, span, kind, Depth(d))
                ELSE pushed.current_nesting_lint[1]
    IN IF d <= self.config.max_depth THEN pushed
       ELSE [pushed EXCEPT !.current_nesting_lint = <<lint>>]

\* push_context with the threshold test off by one: a depth equal to
\* max_depth already counts as too deep.
push_context_at_threshold(self, kind, span) ==
    LET pushed == [self EXCEPT !.contexts = Append(@, NewContext(kind, span))]
        d == depth(pushed)
        outer_span == IF Len(pushed.contexts) >= 2
                      THEN <<pushed.contexts[2].span>> ELSE <<>>
        lint == IF pushed.current_nesting_lint = <<>>
                THEN NewLint(outer_span, span, kind, Depth(d))
                ELSE pushed.current_nesting_lint[1]
    IN IF d < self.config.max_depth THEN pushed
       ELSE [pushed EXCEPT !.current_nesting_lint =
                              <<[lint EXCEPT !.reason = Depth(d)]>>]

\* push_context that puts a lint in the result list as soon as it creates it.
push_context_emit_at_once(self, kind, span) ==
    LET pushed == [self EXCEPT !.contexts = Append(@, NewContext(kind, span))]
        d == depth(pushed)
        outer_span == IF Len(pushed.contexts) >= 2
                      THEN <<pushed.contexts[2].span>> ELSE <<>>
    IN IF d <= self.config.max_depth \/ pushed.current_nesting_lint # <<>>
       THEN pushed
       ELSE [pushed EXCEPT !.lints =
                Append(@, NewLint(outer_span, span, kind, Depth(d)))]

\* push_context that records depth() as it was before the push.
push_context_depth_before(self, kind, span) ==
    LET pushed == [self EXCEPT !.contexts = Append(@, NewContext(kind, span))]
        d == depth(pushed)
        outer_span == IF Len(pushed.contexts) >= 2
                      THEN <<pushed.contexts[2].span>> ELSE <<>>
        lint == IF pushed.current_nesting_lint = <<>>
                THEN NewLint(outer_span, span, kind, Depth(depth(self)))
                ELSE pushed.current_nesting_lint[1]
    IN IF d <= self.config.max_depth THEN pushed
       ELSE [pushed EXCEPT !.current_nesting_lint =
                              <<[lint EXCEPT !.reason = Depth(depth(self))]>>]

push_context(self, kind, span) ==
    LET pushed == [self EXCEPT !.contexts = Append(@, NewContext(kind, span))]
        d == depth(pushed)
        outer_span == IF Len(pushed.contexts) >= 2
                      THEN <<pushed.contexts[2].span>> ELSE <<>>
        lint == IF pushed.current_nesting_lint = <<>>
                THEN NewLint(outer_span, span, kind, Depth(d))
                ELSE pushed.current_nesting_lint[1]
    IN IF d <= self.config.max_depth THEN pushed
       ELSE [pushed EXCEPT !.current_nesting_lint =
                              <<[lint EXCEPT !.reason = Depth(d)]>>]

\* pop_context that flushes the open Depth lint only below max_depth.
pop_context_below_threshold(self) ==
    LET d == depth(self)
        popped ==
            IF self.contexts = <<>> THEN self
            ELSE [self EXCEPT
                    !.contexts = Front(@),
                    !.lints = @ \o Last(self.contexts).consec_if_else_lint]
    IN IF d < self.config.max_depth
       THEN [popped EXCEPT !.lints = @ \o popped.current_nesting_lint,
                           !.current_nesting_lint = <<>>]
       ELSE popped

\* pop_context that reads current_nesting_lint without taking it.
pop_context_no_take(self) ==
    LET d == depth(self)
        popped ==
            IF self.contexts = <<>> THEN self
            ELSE [self EXCEPT
                    !.contexts = Front(@),
                    !.lints = @ \o Last(self.contexts).consec_if_else_lint]
    IN IF d <= self.config.max_depth
       THEN [popped EXCEPT !.lints = @ \o popped.current_nesting_lint]
       ELSE popped

pop_context(self) ==
    LET d == depth(self)
        popped ==
            IF self.contexts = <<>> THEN self
            ELSE [self EXCEPT
                    !.contexts = Front(@),
                    !.lints = @ \o Last(self.contexts).consec_if_else_lint]
    IN IF d <= self.config.max_depth
       THEN [popped EXCEPT !.lints = @ \o popped.current_nesting_lint,
                           !.current_nesting_lint = <<>>]
       ELSE popped


\* The parts of the handlers that run between two recursive calls.

\* visit_expr of an expression other than `if` whose handler pushes a
\* context: reset_if_else, then push_context.
visit_expr_enter(self, kind, span) ==
    push_context(reset_if_else(self), kind, span)

\* visit_expr of ExprKind::Block: the context is pushed inside functions only.
visit_expr_block_enter(self, span) ==
    IF self.inside_fn
    THEN push_context(reset_if_else(self), "Block", span)
    ELSE reset_if_else(self)

visit_expr_block_exit(self) ==
    IF self.inside_fn THEN pop_context(self) ELSE self

\* process_if up to the walk of the branch's block: kind is "If" for an
\* ExprKind::If and "Else" for the block of a final else.
process_if(self, kind, span) ==
    push_context(inc_if_else(self, span), kind, span)

\* process_fn of a function with a body, up to the walk of the body.
process_fn_enter(self, span) ==
    [(IF self.inside_fn THEN push_context(self, "Func", span) ELSE self)
        EXCEPT !.inside_fn = TRUE]

\* process_fn that restores inside_fn and leaves the stack alone.
process_fn_exit_no_pop(self, was_inside_fn) ==
    [self EXCEPT !.inside_fn = was_inside_fn]

\* process_fn after the walk of the body.
process_fn_exit(self, was_inside_fn) ==
    [pop_context(self) EXCEPT !.inside_fn = was_inside_fn]

\* visit_stmt of a macro invocation, for an `if` of what the macro expands
\* to: StmtKind::MacCall is under the `_ => {}` arm, and the pass runs
\* before expansion, so the `if` is never handed to process_if.
visit_stmt_mac_call_expanded(self, span) == process_if(self, "If", span)

visit_stmt_mac_call(self, span) == self

\* --------------------------------------------------------- call stack ---

Frame(pc, span, was) == [pc |-> pc, span |-> span, was |-> was]

Top == Last(calls)

\* Handlers that are in the loop of visit_block.
BlockPcs ==
    {"fn_body", "if_then", "else_block", "loop_body", "block_expr", "plain_block"}

\* The walk is at a place where visit_item may be called next: the loops of
\* visit_crate and of a module, and a statement of a block (StmtKind::Item).
AtItem ==
    /\ calls # <<>>
    /\ Top.pc \in {"crate_items", "mod_items"} \cup BlockPcs

\* The walk is at a place where visit_stmt may be called next.
AtStmt ==
    /\ calls # <<>>
    /\ Top.pc \in BlockPcs

\* The walk is at a place where visit_expr may be called next: a statement
\* of a block, the one expression a handler visits ("expr"), the condition
\* of a `while` ("while_cond"), the body of a closure ("closure_body"), or
\* the loop over match arms ("arms") or call arguments ("args").
AtExpr ==
    /\ calls # <<>>
    /\ Top.pc \in {"expr", "while_cond", "closure_body", "arms", "args"}
                 \cup BlockPcs

\* The call stack once the pending single expression, if any, is taken.
Base ==
    IF Top.pc \in {"expr", "while_cond", "closure_body"}
    THEN Front(calls) ELSE calls

\* The crate may hold one more function or if branch.
CanAdd ==
    next_span <= (IF visitor.config = DefaultConfig
                  THEN MaxDefaultNodes ELSE MaxNodes)

\* The crate may hold one more composite node of another kind that gets a
\* context.
CanAddOther == CanAdd /\ others < MaxOther

\* The crate may hold one more composite node that gets no context.
CanAddPlain == CanAdd /\ plains < MaxPlain

Done == calls = <<>>

\* ------------------------------------------------------ history state ---

RECURSIVE Rep(_, _)
Rep(s, n) == IF n = 0 THEN <<>> ELSE s \o Rep(s, n - 1)

InFn(body) ==
    <<"VisitItemFn", "ProcessFn">> \o body
        \o <<"ProcessFnExit", "VisitItemExit", "CrateEnd">>

\* fn f() { if c { if c { ... } } }: k nested `if`, each the only statement
\* of the one around it.
NestedIfs(k) ==
    InFn(Rep(<<"ExprIf">>, k) \o Rep(<<"ProcessIfPop", "ProcessIfNoElse">>, k))

\* fn f() { if c {} if c {} ... }: n `if` statements without else.
SiblingIfs(n) ==
    InFn(Rep(<<"ExprIf", "ProcessIfPop", "ProcessIfNoElse">>, n))

\* fn f() { if c {} else if c {} ... else {} }: one `if` and k - 2
\* `else if`, then a final else.
ChainElse(k) ==
    InFn(<<"ExprIf", "ProcessIfPop">>
           \o Rep(<<"ProcessElseIf", "ProcessIfPop">>, k - 2)
           \o <<"ProcessElse", "ProcessElseExit">>)

\* fn f() { if c {} else if c {} ... }: one `if` and k - 1 `else if`.
ChainNoElse(k) ==
    InFn(<<"ExprIf", "ProcessIfPop">>
           \o Rep(<<"ProcessElseIf", "ProcessIfPop">>, k - 1)
           \o <<"ProcessIfNoElse">>)

\* fn f() { m!(..); } where m expands to k nested `if`.
MacroNestedIfs(k) ==
    InFn(<<"VisitStmtMacCall">> \o Rep(<<"MacCallIf">>, k) \o <<"MacCallEnd">>)

\* The largest number of branches of a shape.
MaxShape == IF MaxDefaultNodes > MaxNodes THEN MaxDefaultNodes ELSE MaxNodes

Shapes ==
    {NestedIfs(k) : k \in 0..MaxShape}
      \cup {MacroNestedIfs(k) : k \in 0..MaxShape}
      \cup {SiblingIfs(n) : n \in 0..MaxShape}
      \cup {ChainElse(k) : k \in 2..MaxShape}
      \cup {ChainNoElse(k) : k \in 1..MaxShape}

ShapePrefixes ==
    UNION {{SubSeq(s, 1, i) : i \in 0..Len(s)} : s \in Shapes}

Observe(handler) ==
    IF trace = <<"other">> THEN trace
    ELSE LET t == Append(trace, handler)
         IN IF t \in ShapePrefixes THEN t ELSE <<"other">>

\* A lint without its count: what stays the same while it is open.
Identity(lint) ==
    [tag |-> lint.reason.tag, span |-> lint.span,
     outer_span |-> lint.outer_span, kind |-> lint.kind]

\* The lints that the step from visitor state v to nv created.
Created(v, nv) ==
    LET n == Len(v.contexts)
    IN (IF /\ n > 0
           /\ Len(nv.contexts) >= n
           /\ v.contexts[n].consec_if_else_lint = <<>>
           /\ nv.contexts[n].consec_if_else_lint # <<>>
        THEN <<Identity(nv.contexts[n].consec_if_else_lint[1])>> ELSE <<>>)
       \o
       (IF v.current_nesting_lint = <<>> /\ nv.current_nesting_lint # <<>>
        THEN <<Identity(nv.current_nesting_lint[1])>> ELSE <<>>)

NextOwner(v, nv) ==
    IF nv.current_nesting_lint = <<>> THEN 0
    ELSE IF v.current_nesting_lint = <<>> THEN Len(nv.contexts)
    ELSE IF Len(nv.contexts) < owner THEN 0
    ELSE owner

NextDeepest(v, nv) ==
    IF nv.current_nesting_lint = <<>> THEN 0
    ELSE IF v.current_nesting_lint = <<>> \/ depth(nv) > deepest
         THEN depth(nv)
    ELSE deepest

\* One step of the walk: the two runs go to new_visitor and new_raised and
\* the call stack becomes new_calls; node is "core" when the step meets a
\* new function or if branch, "other" when it meets another composite node
\* that gets a context, "plain" when it meets one that gets none, "none"
\* otherwise; pop is <<span>> when the step calls pop_context for the node
\* with that span.
Walk(handler, new_visitor, new_raised, new_calls, node, pop) ==
    /\ visitor' = new_visitor
    /\ raised' = new_raised
    /\ calls' = new_calls
    /\ next_span' = IF node = "none" THEN next_span ELSE next_span + 1
    /\ others' = IF node = "other" THEN others + 1 ELSE others
    /\ plains' = IF node = "plain" THEN plains + 1 ELSE plains
    /\ trace' = Observe(handler)
    /\ opened' = opened \o Created(visitor, new_visitor)
    /\ owner' = NextOwner(visitor, new_visitor)
    /\ last_pop' =
         IF pop = <<>> THEN last_pop
         ELSE [expected |-> pop,
               actual |-> IF visitor.contexts = <<>> THEN <<>>
                          ELSE <<Last(visitor.contexts).span>>]
    /\ chain_depth' =
         IF handler = "ExprIf" THEN Append(chain_depth, depth(new_visitor))
         ELSE IF handler \in {"ProcessIfNoElse", "ProcessElseExit"}
              THEN Front(chain_depth)
         ELSE chain_depth
    /\ counted' = counted
    /\ deepest' = NextDeepest(visitor, new_visitor)
    /\ eol' = eol
    /\ too_deep' = too_deep

\* No item is handed to eol_comments.
NoItem == [snippet |-> <<>>, done |-> FALSE, flagged |-> <<>>]

\* Option::None of a span.
NoSpan == [id |-> 0, anc |-> {}, fn |-> 0, stmt |-> 0]

\* NestingTooDeep::default() under a configuration.
NewNestingTooDeep(config) ==
    [config |-> config, outer_span |-> NoSpan, max_depth |-> 0, lints |-> <<>>]

\* No body is handed to nesting_too_deep.
NoBody ==
    [pass |-> NewNestingTooDeep([max_depth |-> DEFAULT_MAX_DEPTH]),
     stack |-> <<>>, next_id |-> 1, leaves |-> 0, fns |-> 0, stmt |-> 0]

\* --------------------------------------------------------------- Init ---

Configs ==
    [max_depth : 0..MaxThreshold, max_consec_if_else : 0..MaxThreshold]

Init ==
    /\ \E config \in Configs :
         /\ visitor = NewVisitor(config)
         /\ raised = NewVisitor([config EXCEPT !.max_depth = @ + 1])
    /\ calls = <<Frame("crate_items", 0, FALSE)>>
    /\ next_span = 1
    /\ others = 0
    /\ plains = 0
    /\ trace = <<>>
    /\ opened = <<>>
    /\ owner = 0
    /\ last_pop = [expected |-> <<>>, actual |-> <<>>]
    /\ chain_depth = <<>>
    /\ counted = <<>>
    /\ deepest = 0
    /\ eol = NoItem
    /\ too_deep = NoBody

\* -------------------------------------------------------- visit_item ---

\* ItemKind::Static with an initializer: push Static, then visit_expr.
VisitItemStatic ==
    /\ AtItem /\ CanAddOther
    /\ Walk("VisitItemStatic",
            push_context(visitor, "Static", next_span),
            push_context(raised, "Static", next_span),
            calls \o <<Frame("item_exit", next_span, FALSE),
                       Frame("expr", next_span, FALSE)>>,
            "other", <<>>)

\* ItemKind::Fn: push Func, then process_fn.
VisitItemFn ==
    /\ AtItem /\ CanAdd
    /\ Walk("VisitItemFn",
            push_context(visitor, "Func", next_span),
            push_context(raised, "Func", next_span),
            calls \o <<Frame("item_exit", next_span, FALSE),
                       Frame("process_fn", next_span, FALSE)>>,
            "core", <<>>)

\* ItemKind::Mod with loaded items: push Mod, then visit_item of each.
VisitItemMod ==
    /\ AtItem /\ CanAddOther
    /\ Walk("VisitItemMod",
            push_context(visitor, "Mod", next_span),
            push_context(raised, "Mod", next_span),
            calls \o <<Frame("mod_items", next_span, FALSE)>>,
            "other", <<>>)

\* ItemKind::Trait and ItemKind::Impl: push, then process_fn of each
\* associated function.
VisitItemAssoc ==
    /\ AtItem /\ CanAddOther
    /\ \E kind \in {"Trait", "Impl"} :
         Walk("VisitItemAssoc",
              push_context(visitor, kind, next_span),
              push_context(raised, kind, next_span),
              calls \o <<Frame("assoc_items", next_span, FALSE)>>,
              "other", <<>>)

\* Any other item, and a static without initializer: nothing.
VisitItemOther ==
    /\ AtItem
    /\ Walk("VisitItemOther",
            visitor,
            raised,
            calls, "none", <<>>)

\* An associated function: process_fn with the associated item's span.
AssocFn ==
    /\ calls # <<>> /\ Top.pc = "assoc_items" /\ CanAdd
    /\ Walk("AssocFn",
            visitor,
            raised,
            calls \o <<Frame("process_fn", next_span, FALSE)>>, "core", <<>>)

\* An associated item that is no function is skipped.
AssocOther ==
    /\ calls # <<>> /\ Top.pc = "assoc_items"
    /\ Walk("AssocOther",
            visitor,
            raised,
            calls, "none", <<>>)

\* The pop_context that ends visit_item of a static, a function, a module,
\* a trait or an impl.
VisitItemExit ==
    /\ calls # <<>>
    /\ Top.pc \in {"item_exit", "mod_items", "assoc_items"}
    /\ Walk("VisitItemExit",
            pop_context(visitor),
            pop_context(raised),
            Front(calls), "none", <<Top.span>>)

\* --------------------------------------------------------- process_fn ---

\* A function without body: process_fn returns at once.
ProcessFnNoBody ==
    /\ calls # <<>> /\ Top.pc = "process_fn"
    /\ Walk("ProcessFnNoBody",
            visitor,
            raised,
            Front(calls), "none", <<>>)

\* A function with a body: push Func when already inside a function, set
\* inside_fn, then visit_block of the body.
ProcessFn ==
    /\ calls # <<>> /\ Top.pc = "process_fn"
    /\ Walk("ProcessFn",
            process_fn_enter(visitor, Top.span),
            process_fn_enter(raised, Top.span),
            Front(calls) \o <<Frame("fn_body", Top.span, visitor.inside_fn)>>,
            "none", <<>>)

\* The body is walked: pop_context and restore inside_fn.
ProcessFnExit ==
    /\ calls # <<>> /\ Top.pc = "fn_body"
    /\ Walk("ProcessFnExit",
            process_fn_exit(visitor, Top.was),
            process_fn_exit(raised, Top.was),
            Front(calls), "none", <<Top.span>>)

\* --------------------------------------------------------- visit_stmt ---

\* A let without initializer, an empty statement: nothing.
VisitStmtOther ==
    /\ AtStmt
    /\ Walk("VisitStmtOther",
            visitor,
            raised,
            calls, "none", <<>>)

\* let PAT = expr else { block }: visit_expr, then visit_block.
VisitStmtLetElse ==
    /\ AtStmt /\ CanAddPlain
    /\ Walk("VisitStmtLetElse",
            visitor,
            raised,
            calls \o <<Frame("plain_block", next_span, FALSE),
                       Frame("expr", next_span, FALSE)>>,
            "plain", <<>>)

\* A macro invocation m!(..) as a statement: nothing. What the macro will
\* expand to is not part of the tree yet.
VisitStmtMacCall ==
    /\ AtStmt /\ CanAddPlain
    /\ Walk("VisitStmtMacCall",
            visitor,
            raised,
            calls \o <<Frame("mac_call", next_span, FALSE)>>,
            "plain", <<>>)

\* The expansion of the invocation holds one more `if`, in the one before.
MacCallIf ==
    /\ calls # <<>> /\ Top.pc = "mac_call" /\ CanAdd
    /\ Walk("MacCallIf",
            visit_stmt_mac_call(visitor, next_span),
            visit_stmt_mac_call(raised, next_span),
            calls, "core", <<>>)

\* visit_stmt returns from the macro invocation.
MacCallEnd ==
    /\ calls # <<>> /\ Top.pc = "mac_call"
    /\ Walk("MacCallEnd",
            visitor,
            raised,
            Front(calls), "none", <<>>)

\* --------------------------------------------------------- visit_expr ---

\* An expression whose kind has no arm of its own: reset_if_else only.
ExprOther ==
    /\ AtExpr
    /\ Walk("ExprOther",
            reset_if_else(visitor),
            reset_if_else(raised),
            Base, "none", <<>>)

\* ExprKind::Let, the condition of a `while let`: push Let, visit the
\* scrutinee, pop.
ExprLet ==
    /\ AtExpr /\ Top.pc = "while_cond" /\ CanAddOther
    /\ Walk("ExprLet",
            visit_expr_enter(visitor, "Let", next_span),
            visit_expr_enter(raised, "Let", next_span),
            Base \o <<Frame("expr_exit", next_span, FALSE),
                      Frame("expr", next_span, FALSE)>>,
            "other", <<>>)

\* ExprKind::If: process_if, which counts the branch in the context around
\* it, pushes If and walks the then block.
ExprIf ==
    /\ AtExpr /\ CanAdd
    /\ Walk("ExprIf",
            process_if(visitor, "If", next_span),
            process_if(raised, "If", next_span),
            Base \o <<Frame("if_then", next_span, FALSE)>>,
            "core", <<>>)

\* ExprKind::While: push While, visit the condition, walk the body, pop.
ExprWhile ==
    /\ AtExpr /\ CanAddOther
    /\ Walk("ExprWhile",
            visit_expr_enter(visitor, "While", next_span),
            visit_expr_enter(raised, "While", next_span),
            Base \o <<Frame("loop_body", next_span, FALSE),
                      Frame("while_cond", next_span, FALSE)>>,
            "other", <<>>)

\* ExprKind::ForLoop and ExprKind::Loop: push, walk the body, pop.
ExprLoop ==
    /\ AtExpr /\ CanAddOther
    /\ \E kind \in {"For", "Loop"} :
         Walk("ExprLoop",
              visit_expr_enter(visitor, kind, next_span),
              visit_expr_enter(raised, kind, next_span),
              Base \o <<Frame("loop_body", next_span, FALSE)>>,
              "other", <<>>)

\* ExprKind::Match: visit_expr of each arm that has a body; no context.
ExprMatch ==
    /\ AtExpr /\ CanAddPlain
    /\ Walk("ExprMatch",
            reset_if_else(visitor),
            reset_if_else(raised),
            Base \o <<Frame("arms", next_span, FALSE)>>, "plain", <<>>)

\* ExprKind::Call: visit_expr of each argument; no context.
ExprCall ==
    /\ AtExpr /\ CanAddPlain
    /\ Walk("ExprCall",
            reset_if_else(visitor),
            reset_if_else(raised),
            Base \o <<Frame("args", next_span, FALSE)>>, "plain", <<>>)

\* ExprKind::Closure: visit_expr of the body; no context.
ExprClosure ==
    /\ AtExpr /\ CanAddPlain
    /\ Walk("ExprClosure",
            reset_if_else(visitor),
            reset_if_else(raised),
            Base \o <<Frame("closure_body", next_span, FALSE)>>, "plain", <<>>)

\* ExprKind::Block: push Block when inside a function, walk the block.
ExprBlock ==
    /\ AtExpr /\ CanAddOther
    /\ Walk("ExprBlock",
            visit_expr_block_enter(visitor, next_span),
            visit_expr_block_enter(raised, next_span),
            Base \o <<Frame("block_expr", next_span, FALSE)>>,
            "other", <<>>)

\* ExprKind::Gen and ExprKind::TryBlock: walk the block; no context.
ExprGenOrTry ==
    /\ AtExpr /\ CanAddPlain
    /\ Walk("ExprGenOrTry",
            reset_if_else(visitor),
            reset_if_else(raised),
            Base \o <<Frame("plain_block", next_span, FALSE)>>, "plain", <<>>)

\* The block of an ExprKind::Block is walked: pop when inside a function.
ExprBlockExit ==
    /\ calls # <<>> /\ Top.pc = "block_expr"
    /\ Walk("ExprBlockExit",
            visit_expr_block_exit(visitor),
            visit_expr_block_exit(raised),
            Front(calls), "none",
            IF visitor.inside_fn THEN <<Top.span>> ELSE <<>>)

\* The pop_context that ends the arm of Let, While, ForLoop or Loop.
ExprExit ==
    /\ calls # <<>> /\ Top.pc \in {"expr_exit", "loop_body"}
    /\ Walk("ExprExit",
            pop_context(visitor),
            pop_context(raised),
            Front(calls), "none", <<Top.span>>)

\* The last arm or argument is visited; the block of a Gen, a TryBlock or a
\* let-else is walked.
ExprsEnd ==
    /\ calls # <<>> /\ Top.pc \in {"arms", "args", "plain_block"}
    /\ Walk("ExprsEnd",
            visitor,
            raised,
            Front(calls), "none", <<>>)

\* --------------------------------------------------------- process_if ---

\* The then block is walked: pop_context.
ProcessIfPop ==
    /\ calls # <<>> /\ Top.pc = "if_then"
    /\ Walk("ProcessIfPop",
            pop_context(visitor),
            pop_context(raised),
            Front(calls) \o <<Frame("if_else", Top.span, FALSE)>>,
            "none", <<Top.span>>)

\* The `if` has no else.
ProcessIfNoElse ==
    /\ calls # <<>> /\ Top.pc = "if_else"
    /\ Walk("ProcessIfNoElse",
            visitor,
            raised,
            Front(calls), "none", <<>>)

\* else if: process_if of the else expression, an ExprKind::If.
ProcessElseIf ==
    /\ calls # <<>> /\ Top.pc = "if_else" /\ CanAdd
    /\ Walk("ProcessElseIf",
            process_if(visitor, "If", next_span),
            process_if(raised, "If", next_span),
            Front(calls) \o <<Frame("if_then", next_span, FALSE)>>,
            "core", <<>>)

\* else { block }: process_if of the else expression, an ExprKind::Block.
ProcessElse ==
    /\ calls # <<>> /\ Top.pc = "if_else" /\ CanAdd
    /\ Walk("ProcessElse",
            process_if(visitor, "Else", next_span),
            process_if(raised, "Else", next_span),
            Front(calls) \o <<Frame("else_block", next_span, FALSE)>>,
            "core", <<>>)

\* The else block is walked: pop_context.
ProcessElseExit ==
    /\ calls # <<>> /\ Top.pc = "else_block"
    /\ Walk("ProcessElseExit",
            pop_context(visitor),
            pop_context(raised),
            Front(calls), "none", <<Top.span>>)

\* -------------------------------------------------------- visit_crate ---

\* The last item of the crate is visited; check_crate emits visitor.lints.
CrateEnd ==
    /\ calls # <<>> /\ Top.pc = "crate_items"
    /\ Walk("CrateEnd",
            visitor,
            raised,
            <<>>, "none", <<>>)

Next ==
    \/ VisitItemStatic \/ VisitItemFn \/ VisitItemMod \/ VisitItemAssoc
    \/ VisitItemOther \/ AssocFn \/ AssocOther \/ VisitItemExit
    \/ ProcessFnNoBody \/ ProcessFn \/ ProcessFnExit
    \/ VisitStmtOther \/ VisitStmtLetElse
    \/ VisitStmtMacCall \/ MacCallIf \/ MacCallEnd
    \/ ExprOther \/ ExprLet \/ ExprIf \/ ExprWhile \/ ExprLoop
    \/ ExprMatch \/ ExprCall \/ ExprClosure \/ ExprBlock \/ ExprGenOrTry
    \/ ExprBlockExit \/ ExprExit \/ ExprsEnd
    \/ ProcessIfPop \/ ProcessIfNoElse \/ ProcessElseIf \/ ProcessElse
    \/ ProcessElseExit
    \/ CrateEnd

Spec == Init /\ [][Next]_vars

\* ------------------------------------------- the default configuration ---

\* check_crate with the configuration that config_or_default returns when
\* no configuration is supplied.
InitDefault ==
    /\ visitor = NewVisitor(DefaultConfig)
    /\ raised = NewVisitor([DefaultConfig EXCEPT !.max_depth = @ + 1])
    /\ calls = <<Frame("crate_items", 0, FALSE)>>
    /\ next_span = 1
    /\ others = 0
    /\ plains = 0
    /\ trace = <<>>
    /\ opened = <<>>
    /\ owner = 0
    /\ last_pop = [expected |-> <<>>, actual |-> <<>>]
    /\ chain_depth = <<>>
    /\ counted = <<>>
    /\ deepest = 0
    /\ eol = NoItem
    /\ too_deep = NoBody

\* The walk of a crate of functions, `if` and expressions of other kinds.
NextDefault ==
    \/ VisitItemFn \/ VisitItemExit
    \/ ProcessFn \/ ProcessFnExit
    \/ ExprOther \/ ExprIf
    \/ ProcessIfPop \/ ProcessIfNoElse \/ ProcessElseIf \/ ProcessElse
    \/ ProcessElseExit
    \/ CrateEnd

SpecDefault == InitDefault /\ [][NextDefault]_vars

\* -------------------------------------------- ContextKind::count_depth ---

\* The kinds of context.rs.
ContextKinds ==
    {"Func", "Mod", "Trait", "Impl", "If", "Then", "ElseIf", "Else", "Match",
     "Closure", "Block", "ExprBlock", "While", "For", "Loop"}

\* The part of the Config of config.rs that count_depth reads.
DepthConfigs == [ignore_closures : BOOLEAN]

\* count_depth with the closure test inverted.
count_depth_closures_inverted(kind, config) ==
    CASE kind = "Func" -> TRUE
      [] kind = "Mod" -> FALSE
      [] kind = "Trait" -> FALSE
      [] kind = "Impl" -> FALSE
      [] kind = "If" -> FALSE
      [] kind = "Then" -> TRUE
      [] kind = "ElseIf" -> FALSE
      [] kind = "Else" -> FALSE
      [] kind = "Match" -> TRUE
      [] kind = "Closure" -> config.ignore_closures
      [] kind = "Block" -> TRUE
      [] kind = "ExprBlock" -> TRUE
      [] kind = "While" -> TRUE
      [] kind = "For" -> TRUE
      [] kind = "Loop" -> TRUE

count_depth(kind, config) ==
    CASE kind = "Func" -> TRUE
      [] kind = "Mod" -> FALSE
      [] kind = "Trait" -> FALSE
      [] kind = "Impl" -> FALSE
      [] kind = "If" -> FALSE
      [] kind = "Then" -> TRUE
      [] kind = "ElseIf" -> FALSE
      [] kind = "Else" -> FALSE
      [] kind = "Match" -> TRUE
      [] kind = "Closure" -> ~config.ignore_closures
      [] kind = "Block" -> TRUE
      [] kind = "ExprBlock" -> TRUE
      [] kind = "While" -> TRUE
      [] kind = "For" -> TRUE
      [] kind = "Loop" -> TRUE

\* One application of count_depth, recorded with its arguments.
CountDepth ==
    /\ Len(counted) < MaxApplied
    /\ \E kind \in ContextKinds, config \in DepthConfigs :
         counted' = Append(counted,
                           [kind |-> kind, config |-> config,
                            counts |-> count_depth(kind, config)])
    /\ UNCHANGED <<visitor, raised, calls, next_span, others, plains, trace, opened,
                   owner, last_pop, chain_depth, deepest, eol, too_deep>>

\* count_depth applied to any kinds under any configurations.
SpecCountDepth == Init /\ [][CountDepth]_vars

\* ------------------------------------------- eol_comments: check_item ---

\* The characters of the source text: a character of code, a space, and
\* the characters that check_item tests for.
Alphabet == {"a", " ", "/", "*", "\"", "'", "\\", "\n"}

Snippets == UNION {[1..n -> Alphabet] : n \in 0..MaxSnippet}

\* The index of the first line feed of the text; 0 when it has none.
LineFeed(text) ==
    IF \E i \in 1..Len(text) : text[i] = "\n"
    THEN CHOOSE i \in 1..Len(text) :
           text[i] = "\n" /\ \A j \in 1..(i - 1) : text[j] # "\n"
    ELSE 0

\* str::lines: the text split at line feeds; a final line feed ends the
\* last line and starts no new one.
RECURSIVE lines(_)
lines(text) ==
    IF text = <<>> THEN <<>>
    ELSE IF LineFeed(text) = 0 THEN <<text>>
    ELSE <<SubSeq(text, 1, LineFeed(text) - 1)>>
           \o lines(SubSeq(text, LineFeed(text) + 1, Len(text)))

\* str::trim_start of the line.
RECURSIVE trim_start(_)
trim_start(line) ==
    IF line # <<>> /\ line[1] = " " THEN trim_start(Tail(line)) ELSE line

\* str::starts_with("//") || str::starts_with("/*").
starts_with_comment(trimmed) ==
    /\ Len(trimmed) >= 2
    /\ trimmed[1] = "/"
    /\ trimmed[2] \in {"/", "*"}

\* The loop over the bytes of a line, from byte i on: the number of lints
\* it emits. The loop ends at the first comment start it sees outside what
\* it takes for a literal.
RECURSIVE scan(_, _, _, _, _)
scan(line, i, in_string, in_char, escaped) ==
    IF i > Len(line) THEN 0
    ELSE IF escaped THEN scan(line, i + 1, in_string, in_char, FALSE)
    ELSE IF line[i] = "\\" /\ (in_string \/ in_char)
         THEN scan(line, i + 1, in_string, in_char, TRUE)
    ELSE IF line[i] = "\"" /\ ~in_char
         THEN scan(line, i + 1, ~in_string, in_char, FALSE)
    ELSE IF line[i] = "'" /\ ~in_string
         THEN scan(line, i + 1, in_string, ~in_char, FALSE)
    ELSE IF line[i] = "/" /\ ~in_string /\ ~in_char
         THEN IF i + 1 > Len(line)
              THEN scan(line, i + 1, in_string, in_char, FALSE)
              ELSE IF line[i + 1] \notin {"/", "*"}
              THEN scan(line, i + 1, in_string, in_char, FALSE)
              ELSE IF trim_start(SubSeq(line, 1, i - 1)) = <<>>
              THEN 0
              ELSE 1
    ELSE scan(line, i + 1, in_string, in_char, FALSE)

\* The body of the loop over the lines: the number of lints for the line.
check_line(line) ==
    IF trim_start(line) = <<>> THEN 0
    ELSE IF starts_with_comment(trim_start(line)) THEN 0
    ELSE scan(line, 1, FALSE, FALSE, FALSE)

\* check_item: for every line of the snippet of the item, the number of
\* lints emitted with the span of that line.
check_item(snippet) ==
    [k \in 1..Len(lines(snippet)) |-> check_line(lines(snippet)[k])]

\* The driver hands an item to the pass.
InitEol ==
    /\ visitor = NewVisitor(DefaultConfig)
    /\ raised = NewVisitor(DefaultConfig)
    /\ calls = <<Frame("crate_items", 0, FALSE)>>
    /\ next_span = 1
    /\ others = 0
    /\ plains = 0
    /\ trace = <<>>
    /\ opened = <<>>
    /\ owner = 0
    /\ last_pop = [expected |-> <<>>, actual |-> <<>>]
    /\ chain_depth = <<>>
    /\ counted = <<>>
    /\ deepest = 0
    /\ \E snippet \in Snippets :
         eol = [snippet |-> snippet, done |-> FALSE, flagged |-> <<>>]
    /\ too_deep = NoBody

CheckItem ==
    /\ ~eol.done
    /\ eol' = [eol EXCEPT !.done = TRUE, !.flagged = check_item(eol.snippet)]
    /\ UNCHANGED <<visitor, raised, calls, next_span, others, plains, trace,
                   opened, owner, last_pop, chain_depth, counted, deepest,
                   too_deep>>

SpecEol == InitEol /\ [][CheckItem]_vars

\* ------------------------------------- nesting_too_deep: check_fn ---

\* A span is named by the number of the node it belongs to; anc holds the
\* nodes whose spans contain it, itself included. fn and stmt tell the body
\* and the statement of that body the node belongs to.
contains(span, current_span) == span.id \in current_span.anc

set_outer_span(self, span) ==
    IF self.outer_span = NoSpan \/ contains(span, self.outer_span)
    THEN [self EXCEPT !.outer_span = span]
    ELSE self

\* The end of check_expr_for_nesting, after the match on the kind of the
\* expression: allow tells that the lint level at the expression is Allow,
\* at the body and the statement that is being checked.
check_expr_for_nesting_end(self, at_depth, allow, at) ==
    LET seen == [self EXCEPT !.max_depth = IF at_depth > @ THEN at_depth ELSE @]
        lint == [span |-> seen.outer_span, levels |-> seen.max_depth,
                 max |-> seen.config.max_depth,
                 fn |-> at.fn, stmt |-> at.stmt]
    IN  IF at_depth = 0
        THEN [seen EXCEPT
                !.lints = IF /\ seen.max_depth > seen.config.max_depth
                             /\ seen.outer_span # NoSpan
                             /\ ~allow
                          THEN Append(@, lint)
                          ELSE @,
                !.outer_span = NoSpan,
                !.max_depth = 0]
        ELSE seen

\* The ends of the calls of check_expr_for_nesting that return one after
\* the other when a construct has been walked, at their depths.
RECURSIVE check_expr_for_nesting_ends(_, _, _, _)
check_expr_for_nesting_ends(self, depths, allow, at) ==
    IF depths = <<>>
    THEN self
    ELSE check_expr_for_nesting_ends(
             check_expr_for_nesting_end(self, depths[1], allow, at),
             Tail(depths), allow, at)

\* A call in progress: the construct, the depth its parts are checked at,
\* the depths of the calls of check_expr_for_nesting that end with it, the
\* nodes whose spans contain its parts, and the number of parts checked.
DeepFrame(pc, d, ends, anc) ==
    [pc |-> pc, depth |-> d, ends |-> ends, anc |-> anc, kids |-> 0]

DeepTop == too_deep.stack[Len(too_deep.stack)]

\* The constructs check_block_for_nesting walks the statements of.
DeepBlockPcs == {"block", "loop", "while", "els"}

\* Another part of the construct on top may follow: an `if` has a then and
\* at most an else, a closure one body, a `let` one initializer.
CanCheckPart ==
    /\ too_deep.stack # <<>>
    /\ CASE DeepTop.pc = "if" -> DeepTop.kids < 2
         [] DeepTop.pc \in {"closure", "let"} -> DeepTop.kids < 1
         [] OTHER -> TRUE

CanCheckStmt ==
    /\ too_deep.stack # <<>>
    /\ DeepTop.pc \in DeepBlockPcs

CanEndPart ==
    /\ too_deep.stack # <<>>
    /\ CASE DeepTop.pc \in {"if", "let"} -> DeepTop.kids >= 1
         [] DeepTop.pc = "closure" -> DeepTop.kids = 1
         [] OTHER -> TRUE

\* The statement of the body the next part belongs to: a part of the block
\* of the body starts a statement.
StmtOfPart ==
    IF Len(too_deep.stack) = 1 THEN too_deep.stmt + 1 ELSE too_deep.stmt

SpanOfPart(id) ==
    [id |-> id, anc |-> DeepTop.anc \cup {id},
     fn |-> too_deep.fns, stmt |-> StmtOfPart]

PushPart(frame) ==
    Append([too_deep.stack EXCEPT ![Len(too_deep.stack)].kids = @ + 1],
           frame)

Untouched ==
    UNCHANGED <<visitor, raised, calls, next_span, others, plains, trace,
                opened, owner, last_pop, chain_depth, counted, deepest, eol>>

DeepConfigs == [max_depth : 1..MaxDeepLimit]

InitTooDeep ==
    /\ visitor = NewVisitor(DefaultConfig)
    /\ raised = NewVisitor(DefaultConfig)
    /\ calls = <<Frame("crate_items", 0, FALSE)>>
    /\ next_span = 1
    /\ others = 0
    /\ plains = 0
    /\ trace = <<>>
    /\ opened = <<>>
    /\ owner = 0
    /\ last_pop = [expected |-> <<>>, actual |-> <<>>]
    /\ chain_depth = <<>>
    /\ counted = <<>>
    /\ deepest = 0
    /\ eol = NoItem
    /\ \E config \in DeepConfigs :
         too_deep = [NoBody EXCEPT !.pass = NewNestingTooDeep(config)]

\* check_fn of a function, a method or the closure of a static: the body is
\* a block, checked at depth 0. The closures of a function body are left to
\* the walk of that body.
CheckFn ==
    /\ too_deep.stack = <<>>
    /\ too_deep.fns < MaxDeepFns
    /\ too_deep' = [too_deep EXCEPT
                      !.stack = <<DeepFrame("block", 0, <<0>>, {})>>,
                      !.fns = @ + 1,
                      !.stmt = 0]
    /\ Untouched

\* check_expr_for_nesting enters an `if`, a loop, a closure or a block. A
\* `while` is a loop whose block is an `if` with the body as its then and a
\* break as its else: the loop keeps the depth, the `if` adds a level, and
\* the span of that `if` is the span of the loop.
CheckExprEnter ==
    /\ CanCheckPart
    /\ too_deep.next_id <= MaxDeepNodes
    /\ \E kind \in {"if", "loop", "while", "closure", "block"} :
         LET d == DeepTop.depth
             span == SpanOfPart(too_deep.next_id)
         IN  too_deep' = [too_deep EXCEPT
               !.pass = IF kind = "block" THEN @ ELSE set_outer_span(@, span),
               !.stack = PushPart(
                   CASE kind = "block" -> DeepFrame(kind, d, <<d>>, span.anc)
                     [] kind = "while" ->
                            DeepFrame(kind, d + 1, <<d + 1, d, d>>, span.anc)
                     [] OTHER -> DeepFrame(kind, d + 1, <<d>>, span.anc)),
               !.next_id = @ + 1,
               !.stmt = StmtOfPart]
    /\ Untouched

\* check_expr_for_nesting enters a match: the outer span is set to the span
\* of the scrutinee, and the arms are checked at the depth of the match.
CheckExprMatch ==
    /\ CanCheckPart
    /\ too_deep.next_id < MaxDeepNodes
    /\ LET d == DeepTop.depth
           id == too_deep.next_id
           whole == SpanOfPart(id)
           scrutinee == [whole EXCEPT !.id = id + 1, !.anc = @ \cup {id + 1}]
       IN  too_deep' = [too_deep EXCEPT
             !.pass = set_outer_span(@, scrutinee),
             !.stack = PushPart(DeepFrame("match", d, <<d>>, whole.anc)),
             !.next_id = @ + 2,
             !.stmt = StmtOfPart]
    /\ Untouched

\* check_expr_for_nesting of an expression of another kind, or of one that
\* comes from a macro.
CheckExprOther ==
    /\ CanCheckPart
    /\ too_deep.leaves < MaxDeepLeaves
    /\ \E allow \in BOOLEAN :
         too_deep' = [too_deep EXCEPT
           !.pass = check_expr_for_nesting_end(
                        @, DeepTop.depth, allow,
                        [fn |-> too_deep.fns, stmt |-> StmtOfPart]),
           !.stack[Len(too_deep.stack)].kids = @ + 1,
           !.leaves = @ + 1,
           !.stmt = StmtOfPart]
    /\ Untouched

\* check_block_for_nesting at a `let` without an initializer.
CheckLet ==
    /\ CanCheckStmt
    /\ too_deep.next_id <= MaxDeepNodes
    /\ too_deep' = [too_deep EXCEPT
         !.pass = set_outer_span(@, SpanOfPart(too_deep.next_id)),
         !.stack[Len(too_deep.stack)].kids = @ + 1,
         !.next_id = @ + 1,
         !.stmt = StmtOfPart]
    /\ Untouched

\* check_block_for_nesting at a `let` with an initializer, which is checked
\* at the depth of the block.
CheckLetInit ==
    /\ CanCheckStmt
    /\ too_deep.next_id <= MaxDeepNodes
    /\ LET span == SpanOfPart(too_deep.next_id)
       IN  too_deep' = [too_deep EXCEPT
             !.pass = set_outer_span(@, span),
             !.stack = PushPart(DeepFrame("let", DeepTop.depth, <<>>, span.anc)),
             !.next_id = @ + 1,
             !.stmt = StmtOfPart]
    /\ Untouched

\* check_block_for_nesting at the else block of a `let`, after the
\* initializer.
CheckLetEls ==
    /\ too_deep.stack # <<>>
    /\ DeepTop.pc = "let"
    /\ DeepTop.kids = 1
    /\ too_deep' = [too_deep EXCEPT
         !.stack = PushPart(DeepFrame("els", DeepTop.depth, <<>>, DeepTop.anc))]
    /\ Untouched

\* The construct on top has been walked: the calls of
\* check_expr_for_nesting that were checking it end.
CheckExprEnd ==
    /\ CanEndPart
    /\ \E allow \in BOOLEAN :
         too_deep' = [too_deep EXCEPT
           !.pass = check_expr_for_nesting_ends(
                        @, DeepTop.ends, allow,
                        [fn |-> too_deep.fns, stmt |-> too_deep.stmt]),
           !.stack = Front(too_deep.stack)]
    /\ Untouched

NextTooDeep ==
    \/ CheckFn
    \/ CheckExprEnter
    \/ CheckExprMatch
    \/ CheckExprOther
    \/ CheckLet
    \/ CheckLetInit
    \/ CheckLetEls
    \/ CheckExprEnd

\* nesting_too_deep checks the bodies of a crate one after the other.
SpecTooDeep == InitTooDeep /\ [][NextTooDeep]_vars

\* ------------------------------------------------------------- claims ---

DepthLints(self) ==
    SelectSeq(self.lints, LAMBDA lint : lint.reason.tag = "Depth")

ConsecIfElseLints(self) ==
    SelectSeq(self.lints, LAMBDA lint : lint.reason.tag = "ConsecIfElse")

\* C1: a function at crate root whose body is k nested `if`, each the only
\* statement of the one around it, gets no Depth lint when k <= max_depth
\* and exactly one, with depth max_depth + 1, when k = max_depth + 1.
C1_NestedIfs ==
    \A k \in 0..MaxNodes :
        (Done /\ trace = NestedIfs(k)) =>
            /\ k <= visitor.config.max_depth => DepthLints(visitor) = <<>>
            /\ k = visitor.config.max_depth + 1 =>
                 /\ Len(DepthLints(visitor)) = 1
                 /\ DepthLints(visitor)[1].reason
                        = Depth(visitor.config.max_depth + 1)

\* The walk of max_depth + 1 = 2 nested `if` has ended with one Depth lint.
C1_Witness ==
    /\ Done
    /\ visitor.config.max_depth = 1
    /\ trace = NestedIfs(2)
    /\ Len(DepthLints(visitor)) = 1

\* C2: n sibling `if` statements without else in one block are n chains of
\* length 1 and never produce a ConsecIfElse lint (max_consec_if_else >= 1,
\* so that a chain of length 1 is not itself too long).
C2_SiblingIfsNoLint ==
    \A n \in 0..MaxNodes :
        (/\ Done
         /\ trace = SiblingIfs(n)
         /\ visitor.config.max_consec_if_else >= 1)
            => ConsecIfElseLints(visitor) = <<>>

\* C3: an if / else-if / else chain with k branches that is the only
\* statement of a function body gets no ConsecIfElse lint when
\* k <= max_consec_if_else and exactly one, with count k, when it is longer.
C3_Chain ==
    \A k \in 1..MaxNodes :
        (/\ Done
         /\ \/ trace = ChainNoElse(k)
            \/ k >= 2 /\ trace = ChainElse(k))
            => IF k <= visitor.config.max_consec_if_else
               THEN ConsecIfElseLints(visitor) = <<>>
               ELSE /\ Len(ConsecIfElseLints(visitor)) = 1
                    /\ ConsecIfElseLints(visitor)[1].reason = ConsecIfElse(k)

\* The walk of `if {} else if {} else {}` has ended with max_consec_if_else
\* = 1 and one ConsecIfElse lint that counts 3 branches.
C3_Witness ==
    /\ Done
    /\ trace = ChainElse(3)
    /\ visitor.config.max_consec_if_else = 1
    /\ Len(ConsecIfElseLints(visitor)) = 1
    /\ ConsecIfElseLints(visitor)[1].reason.n = 3

\* How many lints of the sequence are the lint `id`.
Count(lints, id) ==
    Cardinality({i \in 1..Len(lints) : Identity(lints[i]) = id})

\* The lints that are open in a context of the stack.
OpenConsecIfElse(self) ==
    {Identity(self.contexts[i].consec_if_else_lint[1]) :
        i \in {j \in 1..Len(self.contexts) :
                 self.contexts[j].consec_if_else_lint # <<>>}}

\* C4: a ConsecIfElse lint, once created, is either still open in a context
\* of the stack or in the result list exactly once, whatever is visited
\* after the chain; at the end of the walk it is in the result list.
C4_ConsecIfElseLintKept ==
    \A i \in 1..Len(opened) :
        opened[i].tag = "ConsecIfElse" =>
            IF opened[i] \in OpenConsecIfElse(visitor)
            THEN Count(visitor.lints, opened[i]) = 0
            ELSE Count(visitor.lints, opened[i]) = 1

\* The step pops the context whose push created the open Depth lint.
PopsOwner ==
    /\ owner > 0
    /\ Len(visitor'.contexts) = owner - 1

\* C5: the pop of the context whose push created the open Depth lint, when
\* it leaves depth() <= max_depth, moves the lint to the result list: no
\* Depth lint is open after it.
C5_OwnerPopFlushes ==
    [][(PopsOwner /\ depth(visitor') <= visitor.config.max_depth)
          => /\ visitor'.current_nesting_lint = <<>>
             /\ visitor'.lints # <<>>
             /\ Last(visitor'.lints) = visitor.current_nesting_lint[1]]_vars

CreatedDepth == SelectSeq(opened, LAMBDA id : id.tag = "Depth")

FlushedDepth ==
    [i \in 1..Len(DepthLints(visitor)) |-> Identity(DepthLints(visitor)[i])]

OpenDepth ==
    [i \in 1..Len(visitor.current_nesting_lint) |->
        Identity(visitor.current_nesting_lint[i])]

\* C6: the Depth lints created so far are, in order and each once, those of
\* the result list followed by the open one; no two are the same lint; at
\* the end of the walk none is open, so each is in the result list once.
C6_DepthLintOnce ==
    /\ CreatedDepth = FlushedDepth \o OpenDepth
    /\ \A i, j \in 1..Len(CreatedDepth) :
           CreatedDepth[i] = CreatedDepth[j] => i = j
    /\ Done => OpenDepth = <<>>

\* The walk has ended with two Depth lints in the result list.
C6_Witness ==
    /\ Done
    /\ Len(DepthLints(visitor)) = 2

\* C7: there is at most one open Depth lint, and a step that leaves it open
\* keeps its span, outer span and kind: only the count may change.
C7_OpenDepthLintKept ==
    /\ [](Len(visitor.current_nesting_lint) <= 1)
    /\ [][(/\ visitor.current_nesting_lint # <<>>
           /\ visitor'.current_nesting_lint # <<>>)
             => Identity(visitor'.current_nesting_lint[1])
                    = Identity(visitor.current_nesting_lint[1])]_vars

\* A Depth lint is open, and a context other than the one that created it
\* was pushed above the threshold since: the count is past max_depth + 1.
C7_Witness ==
    /\ visitor.current_nesting_lint # <<>>
    /\ visitor.current_nesting_lint[1].reason.n > visitor.config.max_depth + 1
    /\ Last(visitor.contexts).span # visitor.current_nesting_lint[1].span

\* C8: when the walk of the crate ends the context stack is empty and no
\* lint is open.
C8_NothingOpenAtEnd ==
    Done =>
        /\ visitor.contexts = <<>>
        /\ visitor.current_nesting_lint = <<>>
        /\ OpenConsecIfElse(visitor) = {}

\* The walk has ended after a function nested in a function, with lints.
C8_Witness ==
    /\ Done
    /\ visitor.lints # <<>>
    /\ \E i \in 1..Len(visitor.lints) :
           visitor.lints[i].kind = "Func" /\ visitor.lints[i].outer_span # <<>>

\* C9: the run with the higher max_depth reports no more Depth lints than
\* the run with the lower one.
C9_Monotone ==
    Done => Len(DepthLints(raised)) <= Len(DepthLints(visitor))

\* C9, amended: when the run with the lower max_depth reports no Depth
\* lint, the run with the higher one reports none either.
C9_CleanStaysClean ==
    (Done /\ DepthLints(visitor) = <<>>) => DepthLints(raised) = <<>>

\* The walk has ended; the deepest context was at depth max_depth, so the
\* run reports no Depth lint, and the crate has nested contexts.
C9_Witness ==
    /\ Done
    /\ DepthLints(visitor) = <<>>
    /\ visitor.config.max_depth = 1
    /\ trace = NestedIfs(1)

\* C10: every pop_context removes the context pushed for the node whose
\* handler runs it, and none runs on an empty stack.
C10_StrictLifo ==
    last_pop.actual = last_pop.expected

\* C11: a pop_context that does not remove the context pushed for the node
\* whose handler runs it (or that runs on an empty stack) is fatal: when the
\* walk ends after such a pop, no lint is emitted.
C11_MismatchIsFatal ==
    (Done /\ last_pop.actual # last_pop.expected) => visitor.lints = <<>>

\* The index in calls of the outermost function whose body is being walked;
\* 0 when the walk is in no function body.
OutermostFn ==
    IF \E i \in 1..Len(calls) : calls[i].pc = "fn_body"
    THEN CHOOSE i \in 1..Len(calls) :
           /\ calls[i].pc = "fn_body"
           /\ \A j \in 1..(i - 1) : calls[j].pc # "fn_body"
    ELSE 0

\* The outermost function is at crate root or wrapped in modules, a trait or
\* an impl only.
RootOrWrappedFn ==
    /\ OutermostFn > 0
    /\ \A j \in 1..(OutermostFn - 1) :
          \/ calls[j].pc \in {"crate_items", "mod_items", "assoc_items"}
          \/ calls[j].pc = "item_exit" /\ calls[j].span = calls[OutermostFn].span

\* The contexts of constructs of the body of the outermost function.
BodyContexts ==
    {i \in 1..Len(visitor.contexts) :
        visitor.contexts[i].span > calls[OutermostFn].span}

\* C12: in the body of a function that is at crate root or wrapped in
\* modules, a trait or an impl, depth() is the number of contexts of
\* constructs of the body, as it is for a function at crate root: the
\* contexts of the modules, the trait or the impl do not count.
C12_WrappersDoNotCount ==
    RootOrWrappedFn => depth(visitor) = Cardinality(BodyContexts)

MatchStep ==
    /\ calls' # <<>>
    /\ Last(calls').pc = "arms"
    /\ next_span' = next_span + 1

\* The step is visit_expr of the body of a match arm, and the body is a
\* block.
ArmBlockStep ==
    /\ calls # <<>> /\ Top.pc = "arms"
    /\ calls' # <<>>
    /\ Last(calls').pc = "block_expr"
    /\ next_span' = next_span + 1

\* C14: visiting a `match` leaves depth() as it is, and entering the block
\* that is the body of one of its arms raises it by exactly one; matches
\* nested through arm bodies that are no blocks therefore add nothing.
C14_MatchArmBlock ==
    [][/\ MatchStep => depth(visitor') = depth(visitor)
       /\ ArmBlockStep => depth(visitor') = depth(visitor) + 1]_vars

\* The step is visit_expr of a closure.
ClosureStep ==
    /\ calls' # <<>>
    /\ Last(calls').pc = "closure_body"
    /\ next_span' = next_span + 1

\* C15: entering a closure leaves depth() as it is when ignore_closures is
\* true and raises it by one when ignore_closures is false, whichever of the
\* two the configuration file sets.
C15_ClosureToggle ==
    [][ClosureStep =>
         \A config \in DepthConfigs :
            depth(visitor') = depth(visitor)
                + (IF count_depth("Closure", config) THEN 1 ELSE 0)]_vars

\* The step is process_if of the else expression of an `if`: an `else if`
\* or a final else.
ElseStep ==
    /\ calls # <<>> /\ Top.pc = "if_else"
    /\ calls' # <<>>
    /\ Last(calls').pc \in {"if_then", "else_block"}
    /\ next_span' = next_span + 1

\* C16: the body of every `else if` and of the final else of a chain is
\* entered at the depth() of the body of the chain's first `if`.
C16_ChainBranchesSameDepth ==
    [][ElseStep => depth(visitor') = Last(chain_depth)]_vars

\* The step creates the open Depth lint.
DepthLintCreated ==
    /\ visitor.current_nesting_lint = <<>>
    /\ visitor'.current_nesting_lint # <<>>

\* C17: when a Depth lint is created its outer span is the span of the
\* stack entry at depth max_depth + 1.
C17_OuterSpanPastThreshold ==
    [][DepthLintCreated =>
         visitor'.current_nesting_lint[1].outer_span
            = <<visitor'.contexts[visitor.config.max_depth + 2].span>>]_vars

\* C17, amended: when a Depth lint is created its outer span is the span of
\* the second entry of the stack, the entry at depth 1, whatever max_depth.
C17_OuterSpanSecondEntry ==
    [][DepthLintCreated =>
         visitor'.current_nesting_lint[1].outer_span
            = <<visitor'.contexts[2].span>>]_vars

\* A Depth lint is open with max_depth = 1: its outer span is the entry at
\* depth 1 and not the context at depth 2 whose push created it.
C17_Witness ==
    /\ visitor.config.max_depth = 1
    /\ visitor.current_nesting_lint # <<>>
    /\ Len(visitor.contexts) >= 3
    /\ visitor.current_nesting_lint[1].span = visitor.contexts[3].span
    /\ visitor.current_nesting_lint[1].outer_span = <<visitor.contexts[2].span>>
    /\ visitor.contexts[2].span # visitor.contexts[3].span

\* C18: a Depth lint is created with the span of the context whose push
\* took depth() to max_depth + 1; a later push above max_depth keeps the
\* span and sets the count to the new depth; so k nested `if` in a function
\* at crate root, k > max_depth, are reported once, at the `if` number
\* max_depth + 1, with k levels.
C18_SpanAtFirstExcess ==
    /\ [](\A k \in 1..MaxNodes :
            (Done /\ trace = NestedIfs(k) /\ k > visitor.config.max_depth) =>
                /\ Len(DepthLints(visitor)) = 1
                /\ DepthLints(visitor)[1].span = visitor.config.max_depth + 2
                /\ DepthLints(visitor)[1].reason = Depth(k))
    /\ [][DepthLintCreated =>
            /\ depth(visitor') = visitor.config.max_depth + 1
            /\ visitor'.current_nesting_lint[1].span
                   = Last(visitor'.contexts).span
            /\ visitor'.current_nesting_lint[1].reason
                   = Depth(depth(visitor'))]_vars
    /\ [][(/\ visitor.current_nesting_lint # <<>>
           /\ visitor'.current_nesting_lint # <<>>
           /\ Len(visitor'.contexts) = Len(visitor.contexts) + 1) =>
            /\ visitor'.current_nesting_lint[1].span
                   = visitor.current_nesting_lint[1].span
            /\ visitor'.current_nesting_lint[1].reason
                   = Depth(depth(visitor'))]_vars

\* The walk of three nested `if` has ended with max_depth = 1: one Depth
\* lint, at the second `if`, with 3 levels.
C18_Witness ==
    /\ Done
    /\ trace = NestedIfs(3)
    /\ visitor.config.max_depth = 1
    /\ Len(DepthLints(visitor)) = 1
    /\ DepthLints(visitor)[1].span = 3
    /\ DepthLints(visitor)[1].reason.n = 3

\* C19: the ConsecIfElse lint of an if / else-if / else chain that is the
\* only statement of a function at crate root has the span of the chain's
\* first `if` (span 2; the function has span 1).
C19_AnchoredAtChainRoot ==
    \A k \in 1..MaxNodes :
        (/\ Done
         /\ \/ trace = ChainNoElse(k)
            \/ k >= 2 /\ trace = ChainElse(k))
            => \A i \in 1..Len(ConsecIfElseLints(visitor)) :
                  ConsecIfElseLints(visitor)[i].span = 2

\* C20: the lints are emitted in traversal order: spans are numbered in the
\* order the constructs are entered, so a lint never follows a lint with a
\* greater span.
C20_TraversalOrder ==
    Done =>
        \A i, j \in 1..Len(visitor.lints) :
            i < j => visitor.lints[i].span <= visitor.lints[j].span

\* C21: nested `if` that reach the pass through a macro invocation are
\* reported like the same nesting written directly: a function at crate
\* root whose body is m!(..), where m expands to k nested `if`, gets no
\* Depth lint when k <= max_depth and one, with k levels, when k > max_depth.
C21_MacroLikeDirect ==
    \A k \in 0..MaxNodes :
        (Done /\ trace = MacroNestedIfs(k)) =>
            IF k <= visitor.config.max_depth
            THEN DepthLints(visitor) = <<>>
            ELSE /\ Len(DepthLints(visitor)) = 1
                 /\ DepthLints(visitor)[1].reason = Depth(k)

InNestedFnItem ==
    /\ Len(calls) >= 2
    /\ Top.pc = "fn_body"
    /\ Top.was
    /\ calls[Len(calls) - 1].pc = "item_exit"
    /\ calls[Len(calls) - 1].span = Top.span

\* C25: a function item declared in the body of another function has
\* exactly one context on the stack while its body is walked, so that its
\* body is one level deeper than the item's position, not two.
C25_NestedFnOneLevel ==
    InNestedFnItem =>
        Cardinality({i \in 1..Len(visitor.contexts) :
                        visitor.contexts[i].span = Top.span}) = 1

\* C26: every excursion above max_depth gets a Depth lint of its own, with
\* the span of the construct that starts it: with max_depth = 0 each of n
\* sibling `if` of a function at crate root is an excursion (depth 1, then
\* back to 0), so the n `if` (spans 2 to n + 1) get n Depth lints.
C26_ExcursionsApart ==
    \A n \in 0..MaxShape :
        (Done /\ trace = SiblingIfs(n) /\ visitor.config.max_depth = 0) =>
            /\ Len(DepthLints(visitor)) = n
            /\ \A i \in 1..Len(DepthLints(visitor)) :
                   DepthLints(visitor)[i].span = i + 1

\* The walk is in the body of an associated function of a trait or an impl
\* at crate root.
InRootAssocFn ==
    /\ Len(calls) >= 3
    /\ calls[2].pc = "assoc_items"
    /\ calls[3].pc = "fn_body"

\* C27: in the body of every function of a trait or an impl at crate root,
\* the first one or a later one, depth() is the number of contexts of
\* constructs of the body, as it is in the first one.
C27_SiblingFnsSameDepth ==
    InRootAssocFn =>
        depth(visitor) =
            Cardinality({i \in 1..Len(visitor.contexts) :
                            visitor.contexts[i].span > calls[3].span})

\* The step moves the open Depth lint to the result list.
DepthLintFlushed ==
    /\ visitor.current_nesting_lint # <<>>
    /\ visitor'.current_nesting_lint = <<>>

\* C28: the count of a Depth lint that is moved to the result list is the
\* greatest depth() reached since it was created.
C28_ReportsDeepest ==
    [][DepthLintFlushed =>
         /\ visitor'.lints # <<>>
         /\ Last(visitor'.lints).reason = Depth(deepest)]_vars

\* The step is visit_expr of the `let` that is the condition of a
\* `while let`.
LetStep ==
    /\ calls # <<>> /\ Top.pc = "while_cond"
    /\ Len(calls') >= 2
    /\ calls'[Len(calls') - 1].pc = "expr_exit"
    /\ next_span' = next_span + 1

\* C29: the `let` that is the condition of a `while let` adds no context:
\* visiting it leaves depth() as it is, as visiting any other condition
\* does, and creates no Depth lint.
C29_LetConditionAddsNothing ==
    [][LetStep =>
         /\ depth(visitor') = depth(visitor)
         /\ visitor'.current_nesting_lint = visitor.current_nesting_lint]_vars

\* The step is visit_expr of a block expression.
BlockStep ==
    /\ calls' # <<>>
    /\ Last(calls').pc = "block_expr"
    /\ next_span' = next_span + 1

\* C30: visiting a block expression pushes a context for it, inside a
\* function body and in the initializer of a static alike, and creates the
\* Depth lint when that takes depth() past max_depth with none open.
C30_BlockAddsLevel ==
    [][BlockStep =>
         /\ Len(visitor'.contexts) = Len(visitor.contexts) + 1
         /\ Last(visitor'.contexts).span = next_span
         /\ depth(visitor') > visitor.config.max_depth
               => visitor'.current_nesting_lint # <<>>]_vars

\* Every lint of the run: the result list, the open Depth lint and the
\* ConsecIfElse lints that are open in a context of the stack.
AllLints(self) ==
    {self.lints[i] : i \in 1..Len(self.lints)}
      \cup {self.current_nesting_lint[i] :
               i \in 1..Len(self.current_nesting_lint)}
      \cup {self.contexts[i].consec_if_else_lint[1] :
               i \in {j \in 1..Len(self.contexts) :
                        self.contexts[j].consec_if_else_lint # <<>>}}

\* C31: every lint, open or in the result list, is past its threshold: a
\* Depth lint counts more than max_depth levels and a ConsecIfElse lint
\* more than max_consec_if_else branches.
C31_PastThreshold ==
    \A lint \in AllLints(visitor) :
        /\ lint.reason.tag = "Depth" => lint.reason.n > visitor.config.max_depth
        /\ lint.reason.tag = "ConsecIfElse"
              => lint.reason.n > visitor.config.max_consec_if_else

\* The walk has ended with both thresholds 1, a Depth lint of 2 levels and
\* a ConsecIfElse lint of 2 branches.
C31_Witness ==
    /\ Done
    /\ visitor.config = [max_depth |-> 1, max_consec_if_else |-> 1]
    /\ \E lint \in AllLints(visitor) : lint.reason = Depth(2)
    /\ \E lint \in AllLints(visitor) : lint.reason = ConsecIfElse(2)

\* The handlers of process_if: one is on the call stack for every if chain
\* being walked.
ChainPcs == {"if_then", "if_else", "else_block"}

\* The index in calls of the handler of the j-th if chain being walked,
\* outermost first.
ChainFrame(j) ==
    CHOOSE i \in 1..Len(calls) :
        /\ calls[i].pc \in ChainPcs
        /\ Cardinality({k \in 1..(i - 1) : calls[k].pc \in ChainPcs}) = j - 1

\* The step runs inside the body of a branch of the j-th if chain being
\* walked: the walk of that block is on the call stack before and after.
InBranchBody(j) ==
    /\ calls[ChainFrame(j)].pc \in {"if_then", "else_block"}
    /\ Len(calls') >= ChainFrame(j)
    /\ SubSeq(calls', 1, ChainFrame(j)) = SubSeq(calls, 1, ChainFrame(j))

\* C32: a step inside the body of a branch leaves the branch counter of the
\* chain of that branch as it is: the counter is in the context around the
\* chain, the entry of the stack at the depth() of the body less one, and
\* what is in the body counts in the contexts above it.
C32_BodyKeepsChainCount ==
    [][\A j \in 1..Len(chain_depth) :
          (InBranchBody(j) /\ chain_depth[j] >= 1) =>
              /\ Len(visitor'.contexts) >= chain_depth[j]
              /\ visitor'.contexts[chain_depth[j]].consec_if_else_count
                     = visitor.contexts[chain_depth[j]].consec_if_else_count]_vars

\* The primary messages that check_crate emits, one for each lint of the
\* result list, in order.
Messages(self) ==
    [i \in 1..Len(self.lints) |-> message(self.lints[i].reason, self.config)]

\* C33: with M the threshold and D the count of the lint, the message of a
\* Depth lint is "nesting depth: M max allowed, D levels found" when
\* D = M + 1 and "nesting depth: M max allowed, M+1 to D levels found" when
\* D > M + 1; the message of a ConsecIfElse lint gives M and the count.
C33_MessageFormat ==
    Done =>
        \A i \in 1..Len(visitor.lints) :
            LET D == visitor.lints[i].reason.n
                tag == visitor.lints[i].reason.tag
                M == IF tag = "Depth" THEN visitor.config.max_depth
                     ELSE visitor.config.max_consec_if_else
            IN /\ (tag = "Depth" /\ D = M + 1) =>
                     Messages(visitor)[i] =
                        "nesting depth: " \o ToString(M) \o " max allowed, "
                          \o ToString(D) \o " levels found"
               /\ (tag = "Depth" /\ D > M + 1) =>
                     Messages(visitor)[i] =
                        "nesting depth: " \o ToString(M) \o " max allowed, "
                          \o ToString(M + 1) \o " to " \o ToString(D)
                          \o " levels found"
               /\ tag = "ConsecIfElse" =>
                     Messages(visitor)[i] =
                        "consecutive if-else statements: " \o ToString(M)
                          \o " max allowed, " \o ToString(D) \o " found"

\* The walk has ended with a Depth lint of max_depth + 1 levels and one of
\* more, and the messages for them.
C33_Witness ==
    /\ Done
    /\ visitor.config.max_depth = 1
    /\ \E i, j \in 1..Len(visitor.lints) :
          /\ Messages(visitor)[i] = "nesting depth: 1 max allowed, 2 levels found"
          /\ Messages(visitor)[j]
                = "nesting depth: 1 max allowed, 2 to 3 levels found"

\* The step is an enter: it pushes a context.
EnterStep == Len(visitor'.contexts) = Len(visitor.contexts) + 1

\* The step is an exit: it pops a context.
ExitStep == Len(visitor'.contexts) = Len(visitor.contexts) - 1

\* C34: an enter leaves the result list as it is and, when depth() is at
\* most max_depth after it, the open Depth lint too; the result list
\* changes in exits only.
C34_EntersDoNotReport ==
    /\ [][EnterStep =>
            /\ visitor'.lints = visitor.lints
            /\ depth(visitor') <= visitor.config.max_depth =>
                  visitor'.current_nesting_lint
                      = visitor.current_nesting_lint]_vars
    /\ [][visitor'.lints # visitor.lints => ExitStep]_vars

\* The walk has just entered an `if` below the threshold, after an
\* earlier exit put a lint in the result list.
C34_Witness ==
    /\ calls # <<>>
    /\ Top.pc = "if_then"
    /\ Top.span = next_span - 1
    /\ visitor.contexts # <<>>
    /\ Last(visitor.contexts).span = Top.span
    /\ depth(visitor) <= visitor.config.max_depth
    /\ visitor.lints # <<>>

\* What every character of the text from index i on is, read as Rust
\* source in the given mode: "code", "lit" (of a string or character
\* literal, quotes included), "start" (the first character of a comment) or
\* "comment". A quote that opens no character literal is the tick of a
\* lifetime and is code.
RECURSIVE Classes(_, _, _)
Classes(text, i, mode) ==
    IF i > Len(text) THEN <<>>
    ELSE IF mode = "string"
    THEN IF text[i] = "\\" /\ i + 1 <= Len(text)
         THEN <<"lit", "lit">> \o Classes(text, i + 2, "string")
         ELSE IF text[i] = "\""
         THEN <<"lit">> \o Classes(text, i + 1, "code")
         ELSE <<"lit">> \o Classes(text, i + 1, "string")
    ELSE IF mode = "line_comment"
    THEN IF text[i] = "\n"
         THEN <<"code">> \o Classes(text, i + 1, "code")
         ELSE <<"comment">> \o Classes(text, i + 1, "line_comment")
    ELSE IF mode = "block_comment"
    THEN IF text[i] = "*" /\ i + 1 <= Len(text) /\ text[i + 1] = "/"
         THEN <<"comment", "comment">> \o Classes(text, i + 2, "code")
         ELSE <<"comment">> \o Classes(text, i + 1, "block_comment")
    ELSE IF text[i] = "\""
    THEN <<"lit">> \o Classes(text, i + 1, "string")
    ELSE IF /\ text[i] = "'"
            /\ i + 2 <= Len(text)
            /\ text[i + 1] \notin {"'", "\\", "\n"}
            /\ text[i + 2] = "'"
    THEN <<"lit", "lit", "lit">> \o Classes(text, i + 3, "code")
    ELSE IF /\ text[i] = "'"
            /\ i + 3 <= Len(text)
            /\ text[i + 1] = "\\"
            /\ text[i + 3] = "'"
    THEN <<"lit", "lit", "lit", "lit">> \o Classes(text, i + 4, "code")
    ELSE IF text[i] = "/" /\ i + 1 <= Len(text) /\ text[i + 1] = "/"
    THEN <<"start">> \o Classes(text, i + 1, "line_comment")
    ELSE IF text[i] = "/" /\ i + 1 <= Len(text) /\ text[i + 1] = "*"
    THEN <<"start", "comment">> \o Classes(text, i + 2, "block_comment")
    ELSE <<"code">> \o Classes(text, i + 1, "code")

\* The indices in the text of the characters of its k-th line.
LineIndices(text, k) ==
    {p \in 1..Len(text) :
        /\ text[p] # "\n"
        /\ Cardinality({q \in 1..(p - 1) : text[q] = "\n"}) = k - 1}

\* On the k-th line of the text a comment starts, outside string and
\* character literals, after code that is not white space; the line is
\* neither blank nor does it start with a comment.
CommentAfterCode(text, k) ==
    /\ \E p \in LineIndices(text, k) : text[p] # " "
    /\ \A p \in LineIndices(text, k) :
          (\A q \in LineIndices(text, k) : q < p => text[q] = " ")
             => Classes(text, 1, "code")[p] \notin {"start", "comment"}
    /\ \E p, q \in LineIndices(text, k) :
          /\ q < p
          /\ Classes(text, 1, "code")[p] = "start"
          /\ text[q] # " "
          /\ Classes(text, 1, "code")[q] \in {"code", "lit"}

\* C36: check_item emits one lint for a line on which a comment starts,
\* outside string and character literals, after code that is not white
\* space, and none for any other line.
C36_FlagsCommentAfterCode ==
    eol.done =>
        \A k \in 1..Len(eol.flagged) :
            eol.flagged[k] = IF CommentAfterCode(eol.snippet, k) THEN 1 ELSE 0

\* Between two statements of a body, and between two bodies, nothing is
\* recorded.
BetweenStatements == Len(too_deep.stack) <= 1

\* C35: a "nested structure is N levels deep" diagnostic is reported at a
\* span of the statement of the body whose nesting was found too deep, and
\* between two statements of a body, as between two bodies, outer_span is
\* None and max_depth is 0.
C35_NothingCarriedOver ==
    /\ \A i \in 1..Len(too_deep.pass.lints) :
         LET lint == too_deep.pass.lints[i]
         IN  lint.span.fn = lint.fn /\ lint.span.stmt = lint.stmt
    /\ BetweenStatements =>
         /\ too_deep.pass.outer_span = NoSpan
         /\ too_deep.pass.max_depth = 0

=============================================================================
